---- MODULE Spec2Model ----
(***************************************************************************)
(* Questlab: the in-memory rate limiter (app/utils/rate_limit.py) and the  *)
(* upload validator (app/utils/security.py), modelled as state machines.   *)
(*                                                                         *)
(* Spec       serialized calls of check_rate_limit / remaining /           *)
(*            record_failure on two keys, on a non-decreasing clock.       *)
(* SpecRun    the same calls on one key, with the run of equal check calls *)
(*            since the bucket was empty and the latest denial recorded.   *)
(* SpecRead   the same calls on one key, beside a shadow bucket that no    *)
(*            remaining() call touches.                                    *)
(* SpecCap    check_rate_limit on one key with one (limit, window) pair,   *)
(*            with the times of the admitted calls recorded.               *)
(* SpecFixed  check_rate_limit and remaining on one key with one limit.    *)
(* SpecConc   two request threads running check_rate_limit on one key,     *)
(*            interleaved statement by statement (no lock in the source).  *)
(* SpecUpload validate_file_type on a caller-provided stream.              *)
(* SpecFiles  FileService and the file name helpers on an upload folder.   *)
(* SpecAuth   the login handler, SpecRegister the register handler and     *)
(* SpecSubmit the submit_task handler, each serving one request at a time. *)
(* SpecQuests QuestService.create_quest and get_published_quests.          *)
(***************************************************************************)
EXTENDS Integers, Sequences, FiniteSets, TLC

VARIABLES
    now,        \* time.time(), in whole seconds
    buckets,    \* _buckets: key -> deque of timestamps
    last,       \* the limiter call just made, if any: its arguments, its result (sret: on the
                \* shadow bucket), the bucket before it (spre: the shadow bucket before it)
    hist,       \* which history the specification keeps: "none", "run" or "shadow"
    shadow,     \* history: the buckets as they would be had no remaining() call been made
    fit,        \* history: key -> no call on it used a window longer than an earlier remaining()'s
    remW,       \* history: key -> the shortest window of the remaining() calls made on it
    run,        \* history: key -> the run of equal check_rate_limit calls since the bucket was empty
    denied,     \* history: key -> the latest check_rate_limit call that was not allowed
    config,     \* SpecConc: the configured (limit, window) pair of the throttled action
    threads,    \* SpecConc: each request thread's position in check_rate_limit and its locals
    upload,     \* SpecUpload, SpecFiles: the upload candidate (filename, stream, generated id)
                \* and the application's state around it (sniffer, allowed extensions)
    validated,  \* SpecUpload: the last validate_file_type call and its outcome
    folder,     \* SpecFiles, SpecSubmit: the names of the files in UPLOAD_FOLDER
    service,    \* SpecFiles, SpecQuests: the last service / helper call and its outcome
    admitted,   \* history: key -> the times of the check_rate_limit calls that returned True
    request,    \* SpecAuth, SpecSubmit: the request just served and what serving it did
    db          \* SpecAuth, SpecSubmit, SpecQuests: the rows of the database

vars == <<now, buckets, last, hist, shadow, fit, remW, run, denied, config, threads, upload,
          validated, folder, service, admitted, request, db>>

\* ---------------------------------------------------------------- bounds

MaxTime == 3        \* the clock stops here
MaxLimit == 2       \* limits are 0..MaxLimit
MaxWindow == 2      \* windows are 1..MaxWindow seconds
MaxBucket == 2      \* record_failure is not called when it would leave more entries
MaxCalls == 4       \* a run of equal check calls is followed this far
MaxFiles == 1       \* files the upload folder holds at most
MaxQuests == 2      \* Quest rows the database holds at most

Keys == {"login:A", "login:B"}
OneKey == {"login:A"}
Limits == 0..MaxLimit
Windows == 1..MaxWindow
NoWindow == MaxWindow + 1

\* ---------------------------------------------------------------- rate_limit.py

Max(a, b) == IF a >= b THEN a ELSE b

\* A _prune that removes entries exactly `window` old as well (<= for <).
RECURSIVE _prune_inclusive(_, _, _)
_prune_inclusive(bucket, window, t) ==
    IF bucket # <<>> /\ bucket[1] <= t - window
    THEN _prune_inclusive(Tail(bucket), window, t)
    ELSE bucket

\* A _prune that removes nothing.
_prune_nothing(bucket, window, t) == bucket

\* A fixed-window _prune: the bucket is emptied when the clock enters the next window.
_prune_fixed_window(bucket, window, t) ==
    SelectSeq(bucket, LAMBDA ts : ts \div window = t \div window)

\* while bucket and bucket[0] < now - window: bucket.popleft()
RECURSIVE _prune(_, _, _)
_prune(bucket, window, t) ==
    IF bucket # <<>> /\ bucket[1] < t - window
    THEN _prune(Tail(bucket), window, t)
    ELSE bucket

\* check_rate_limit with the test off by one (> for >=).
check_rate_limit_gt(bucket, limit, window, t) ==
    LET pruned == _prune(bucket, window, t)
    IN  IF Len(pruned) > limit
        THEN [ret |-> FALSE, bucket |-> pruned]
        ELSE [ret |-> TRUE, bucket |-> Append(pruned, t)]

\* check_rate_limit that records the denied attempt too.
check_rate_limit_records_denied(bucket, limit, window, t) ==
    LET pruned == _prune(bucket, window, t)
    IN  IF Len(pruned) >= limit
        THEN [ret |-> FALSE, bucket |-> Append(pruned, t)]
        ELSE [ret |-> TRUE, bucket |-> Append(pruned, t)]

\* check_rate_limit without the length test.
check_rate_limit_unchecked(bucket, limit, window, t) ==
    LET pruned == _prune(bucket, window, t)
    IN  [ret |-> TRUE, bucket |-> Append(pruned, t)]

\* The value returned and the bucket left behind.
check_rate_limit(bucket, limit, window, t) ==
    LET pruned == _prune(bucket, window, t)
    IN  IF Len(pruned) >= limit
        THEN [ret |-> FALSE, bucket |-> pruned]
        ELSE [ret |-> TRUE, bucket |-> Append(pruned, t)]

\* remaining that counts the expired entries too.
remaining_unpruned(bucket, limit, window, t) ==
    LET pruned == _prune(bucket, window, t)
    IN  [ret |-> Max(0, limit - Len(bucket)), bucket |-> pruned]

\* remaining that records the query as an attempt.
remaining_appends(bucket, limit, window, t) ==
    LET pruned == _prune(bucket, window, t)
    IN  [ret |-> Max(0, limit - Len(pruned)), bucket |-> Append(pruned, t)]

\* remaining without the clamp at 0.
remaining_unclamped(bucket, limit, window, t) ==
    LET pruned == _prune(bucket, window, t)
    IN  [ret |-> limit - Len(pruned), bucket |-> pruned]

remaining(bucket, limit, window, t) ==
    LET pruned == _prune(bucket, window, t)
    IN  [ret |-> Max(0, limit - Len(pruned)), bucket |-> pruned]

\* record_failure that returns the count before its own append.
record_failure_stale(bucket, window, t) ==
    LET pruned == _prune(bucket, window, t)
    IN  [ret |-> Len(pruned), bucket |-> Append(pruned, t)]

record_failure(bucket, window, t) ==
    LET pruned == _prune(bucket, window, t)
    IN  [ret |-> Len(Append(pruned, t)), bucket |-> Append(pruned, t)]

\* ---------------------------------------------------------------- history

NoRun == [active |-> FALSE, limit |-> 0, window |-> 0, first |-> 0, calls |-> 0]

\* The run of key k after check_rate_limit(k, limit, window) at time t on bucket b:
\* a run starts at a call on an empty bucket and goes on while the calls are equal
\* and its first entry has not aged out.
RunAfterCheck(r, b, limit, window, t) ==
    IF b = <<>>
    THEN [active |-> TRUE, limit |-> limit, window |-> window, first |-> t, calls |-> 1]
    ELSE IF /\ r.active
            /\ r.limit = limit
            /\ r.window = window
            /\ r.first >= t - window
            /\ r.calls < MaxCalls
         THEN [r EXCEPT !.calls = r.calls + 1]
         ELSE NoRun

NoDenial == [any |-> FALSE, limit |-> 0, window |-> 0, at |-> 0]

NoCall == [op |-> "none", key |-> "none", limit |-> 0, window |-> 0, at |-> 0,
           ret |-> 0, sret |-> 0, pre |-> <<>>, spre |-> <<>>]

\* ---------------------------------------------------------------- serialized calls

InitLimiter(K, h) ==
    /\ now = 0
    /\ buckets = [k \in K |-> <<>>]
    /\ last = NoCall
    /\ hist = h
    /\ shadow = [k \in K |-> <<>>]
    /\ fit = [k \in K |-> TRUE]
    /\ remW = [k \in K |-> NoWindow]
    /\ run = [k \in K |-> NoRun]
    /\ denied = [k \in K |-> NoDenial]
    /\ admitted = [k \in K |-> <<>>]

NoConfig == [limit |-> 0, window |-> 0]
IdleThreads == <<>>
IdleUpload == <<>>

\* The clock moves on; the call just made is no longer the last event.
Tick ==
    /\ now < MaxTime
    /\ now' = now + 1
    /\ last' = NoCall
    /\ UNCHANGED <<request, db, admitted, buckets, hist, shadow, fit, remW, run, denied, config, threads, upload, validated,
                   folder, service>>

\* Check on one deque shared by all keys.
Check_shared_bucket(k, limit, window) ==
    LET r == check_rate_limit(buckets[k], limit, window, now)
    IN  /\ buckets' = [x \in DOMAIN buckets |-> r.bucket]
        /\ last' = [op |-> "check", key |-> k, limit |-> limit, window |-> window,
                    at |-> now, ret |-> r.ret, sret |-> r.ret,
                    pre |-> buckets[k], spre |-> shadow[k]]
        /\ UNCHANGED <<request, db, admitted, now, hist, shadow, fit, run, denied, remW,
                       config, threads, upload, validated, folder, service>>

Check(k, limit, window) ==
    LET r == check_rate_limit(buckets[k], limit, window, now)
        s == check_rate_limit(shadow[k], limit, window, now)
    IN  /\ buckets' = [buckets EXCEPT ![k] = r.bucket]
        /\ last' = [op |-> "check", key |-> k, limit |-> limit, window |-> window,
                    at |-> now, ret |-> r.ret,
                    sret |-> IF hist = "shadow" THEN s.ret ELSE r.ret,
                    pre |-> buckets[k], spre |-> shadow[k]]
        /\ IF hist = "shadow"
           THEN /\ shadow' = [shadow EXCEPT ![k] = s.bucket]
                /\ fit' = [fit EXCEPT ![k] = fit[k] /\ window <= remW[k]]
           ELSE UNCHANGED <<shadow, fit>>
        /\ IF hist = "run"
           THEN /\ run' = [run EXCEPT ![k] =
                              RunAfterCheck(run[k], buckets[k], limit, window, now)]
                /\ denied' = IF r.ret
                             THEN denied
                             ELSE [denied EXCEPT ![k] = [any |-> TRUE, limit |-> limit,
                                                        window |-> window, at |-> now]]
           ELSE UNCHANGED <<run, denied>>
        /\ admitted' = IF hist = "cap" /\ r.ret
                       THEN [admitted EXCEPT ![k] = Append(admitted[k], now)]
                       ELSE admitted
        /\ UNCHANGED <<request, db, now, hist, remW, config, threads, upload, validated,
                   folder, service>>

Remaining(k, limit, window) ==
    LET r == remaining(buckets[k], limit, window, now)
    IN  /\ buckets' = [buckets EXCEPT ![k] = r.bucket]
        /\ last' = [op |-> "remaining", key |-> k, limit |-> limit, window |-> window,
                    at |-> now, ret |-> r.ret, sret |-> r.ret, pre |-> buckets[k],
                    spre |-> shadow[k]]
        /\ IF hist = "shadow"
           THEN remW' = [remW EXCEPT ![k] = IF window < remW[k] THEN window ELSE remW[k]]
           ELSE UNCHANGED remW
        /\ IF hist = "run"
           THEN run' = [run EXCEPT ![k] = NoRun]
           ELSE UNCHANGED run
        /\ UNCHANGED <<request, db, admitted, now, hist, shadow, fit, denied, config, threads, upload, validated,
                   folder, service>>

RecordFailure(k, window) ==
    LET r == record_failure(buckets[k], window, now)
        s == record_failure(shadow[k], window, now)
    IN  /\ Len(r.bucket) <= MaxBucket
        /\ Len(s.bucket) <= MaxBucket
        /\ buckets' = [buckets EXCEPT ![k] = r.bucket]
        /\ last' = [op |-> "record_failure", key |-> k, limit |-> 0, window |-> window,
                    at |-> now, ret |-> r.ret,
                    sret |-> IF hist = "shadow" THEN s.ret ELSE r.ret,
                    pre |-> buckets[k], spre |-> shadow[k]]
        /\ IF hist = "shadow"
           THEN /\ shadow' = [shadow EXCEPT ![k] = s.bucket]
                /\ fit' = [fit EXCEPT ![k] = fit[k] /\ window <= remW[k]]
           ELSE UNCHANGED <<shadow, fit>>
        /\ IF hist = "run"
           THEN run' = [run EXCEPT ![k] = NoRun]
           ELSE UNCHANGED run
        /\ UNCHANGED <<request, db, admitted, now, hist, remW, denied, config, threads, upload, validated,
                   folder, service>>

NoOthers ==
    /\ config = NoConfig
    /\ threads = IdleThreads
    /\ upload = IdleUpload
    /\ validated = IdleUpload
    /\ folder = {}
    /\ service = IdleUpload
    /\ request = IdleUpload
    /\ db = IdleUpload

Next ==
    \/ Tick
    \/ \E k \in DOMAIN buckets, limit \in Limits, window \in Windows :
           Check(k, limit, window)
    \/ \E k \in DOMAIN buckets, limit \in Limits, window \in Windows :
           Remaining(k, limit, window)
    \/ \E k \in DOMAIN buckets, window \in Windows : RecordFailure(k, window)

Init == InitLimiter(Keys, "none") /\ NoOthers
Spec == Init /\ [][Next]_vars

\* One key, with the run of equal check calls recorded.
InitRun == InitLimiter(OneKey, "run") /\ NoOthers
SpecRun == InitRun /\ [][Next]_vars

\* One key, with the buckets that no remaining() call has touched kept beside the real ones.
InitRead == InitLimiter(OneKey, "shadow") /\ NoOthers
SpecRead == InitRead /\ [][Next]_vars

\* One key, throttled with one configured (limit, window) pair and used through
\* check_rate_limit only; the times of the admitted calls are recorded.
InitCap ==
    /\ InitLimiter(OneKey, "cap")
    /\ config \in [limit : 1..MaxLimit, window : Windows]
    /\ threads = IdleThreads
    /\ upload = IdleUpload
    /\ validated = IdleUpload
    /\ folder = {}
    /\ service = IdleUpload
    /\ request = IdleUpload
    /\ db = IdleUpload

NextCap ==
    \/ Tick
    \/ \E k \in DOMAIN buckets : Check(k, config.limit, config.window)

SpecCap == InitCap /\ [][NextCap]_vars

\* One key, used through check_rate_limit and remaining with one limit and any windows.
InitFixed ==
    /\ InitLimiter(OneKey, "none")
    /\ config \in [limit : Limits, window : {0}]
    /\ threads = IdleThreads
    /\ upload = IdleUpload
    /\ validated = IdleUpload
    /\ folder = {}
    /\ service = IdleUpload
    /\ request = IdleUpload
    /\ db = IdleUpload

NextFixed ==
    \/ Tick
    \/ \E k \in DOMAIN buckets, window \in Windows : Check(k, config.limit, window)
    \/ \E k \in DOMAIN buckets, window \in Windows : Remaining(k, config.limit, window)

SpecFixed == InitFixed /\ [][NextFixed]_vars

\* ---------------------------------------------------------------- concurrent requests

\* app.run() serves each request in a thread of its own; check_rate_limit takes no
\* lock, so two requests on one key interleave between its statements.
Threads == {"t1", "t2"}
ConcKey == "login:A"

IdleThread == [pc |-> "idle", tnow |-> 0, ret |-> FALSE]

InitConc ==
    /\ InitLimiter(OneKey, "none")
    /\ config \in [limit : 1..MaxLimit, window : Windows]
    /\ threads = [t \in Threads |-> IdleThread]
    /\ upload = IdleUpload
    /\ validated = IdleUpload
    /\ folder = {}
    /\ service = IdleUpload
    /\ request = IdleUpload
    /\ db = IdleUpload

\* now = time.time(); bucket = _buckets[key]
Enter(t) ==
    /\ threads[t].pc = "idle"
    /\ threads' = [threads EXCEPT ![t] = [pc |-> "prune_test", tnow |-> now, ret |-> FALSE]]
    /\ UNCHANGED <<request, db, admitted, now, buckets, last, hist, shadow, fit, remW, run, denied, config,
                   upload, validated,
                   folder, service>>

\* _prune: while bucket and bucket[0] < now - window
PruneTest(t) ==
    /\ threads[t].pc = "prune_test"
    /\ threads' = [threads EXCEPT ![t].pc =
                      IF /\ buckets[ConcKey] # <<>>
                         /\ buckets[ConcKey][1] < threads[t].tnow - config.window
                      THEN "prune_pop"
                      ELSE "len_test"]
    /\ UNCHANGED <<request, db, admitted, now, buckets, last, hist, shadow, fit, remW, run, denied, config,
                   upload, validated,
                   folder, service>>

\* _prune: bucket.popleft(), which raises IndexError on an empty deque
PrunePop(t) ==
    /\ threads[t].pc = "prune_pop"
    /\ IF buckets[ConcKey] = <<>>
       THEN /\ threads' = [threads EXCEPT ![t].pc = "raised"]
            /\ UNCHANGED buckets
       ELSE /\ buckets' = [buckets EXCEPT ![ConcKey] = Tail(buckets[ConcKey])]
            /\ threads' = [threads EXCEPT ![t].pc = "prune_test"]
    /\ UNCHANGED <<request, db, admitted, now, last, hist, shadow, fit, remW, run, denied, config,
                   upload, validated,
                   folder, service>>

\* if len(bucket) >= limit: return False
LenTest(t) ==
    /\ threads[t].pc = "len_test"
    /\ threads' = [threads EXCEPT ![t] =
                      IF Len(buckets[ConcKey]) >= config.limit
                      THEN [threads[t] EXCEPT !.pc = "done", !.ret = FALSE]
                      ELSE [threads[t] EXCEPT !.pc = "append"]]
    /\ UNCHANGED <<request, db, admitted, now, buckets, last, hist, shadow, fit, remW, run, denied, config,
                   upload, validated,
                   folder, service>>

\* bucket.append(now); return True
AppendNow(t) ==
    /\ threads[t].pc = "append"
    /\ buckets' = [buckets EXCEPT ![ConcKey] = Append(buckets[ConcKey], threads[t].tnow)]
    /\ threads' = [threads EXCEPT ![t] = [threads[t] EXCEPT !.pc = "done", !.ret = TRUE]]
    /\ UNCHANGED <<request, db, admitted, now, last, hist, shadow, fit, remW, run, denied, config,
                   upload, validated,
                   folder, service>>

\* The request ends; the thread serves the next one.
Leave(t) ==
    /\ threads[t].pc \in {"done", "raised"}
    /\ threads' = [threads EXCEPT ![t] = IdleThread]
    /\ UNCHANGED <<request, db, admitted, now, buckets, last, hist, shadow, fit, remW, run, denied, config,
                   upload, validated,
                   folder, service>>

NextConc ==
    \/ Tick
    \/ \E t \in Threads : Enter(t)
    \/ \E t \in Threads : PruneTest(t)
    \/ \E t \in Threads : PrunePop(t)
    \/ \E t \in Threads : LenTest(t)
    \/ \E t \in Threads : AppendNow(t)
    \/ \E t \in Threads : Leave(t)

SpecConc == InitConc /\ [][NextConc]_vars

\* C9: concurrent check_rate_limit calls on one key are never undercounted: the
\* bucket never holds more than `limit` timestamps that lie within one window.
C9_NeverMoreThanLimit ==
    Len(SelectSeq(buckets[ConcKey], LAMBDA x : x >= now - config.window)) <= config.limit

\* ---------------------------------------------------------------- security.py

\* File names are sequences of characters, file contents sequences of bytes.
Dot == "."

UpperCase == <<"A", "B", "C", "D", "E", "F", "G", "H", "I", "J", "K", "L", "M",
               "N", "O", "P", "Q", "R", "S", "T", "U", "V", "W", "X", "Y", "Z">>
LowerCase == <<"a", "b", "c", "d", "e", "f", "g", "h", "i", "j", "k", "l", "m",
               "n", "o", "p", "q", "r", "s", "t", "u", "v", "w", "x", "y", "z">>
Digits == {"0", "1", "2", "3", "4", "5", "6", "7", "8", "9"}

\* A character outside ASCII that NFKD does not decompose into ASCII ones.
NonAscii == {"U+65E5"}

\* A file name that is no string: FileStorage.filename is None.
NoneName == <<"<None>">>

LowerChar(c) ==
    IF \E i \in 1..Len(UpperCase) : UpperCase[i] = c
    THEN LowerCase[CHOOSE i \in 1..Len(UpperCase) : UpperCase[i] = c]
    ELSE c

\* str.lower()
Lower(name) == [i \in 1..Len(name) |-> LowerChar(name[i])]

\* The index of the last dot of name, 0 when it has none.
LastDot(name) ==
    LET dots == {i \in 1..Len(name) : name[i] = Dot}
    IN  IF dots = {} THEN 0 ELSE CHOOSE i \in dots : \A j \in dots : j <= i

\* str.endswith / bytes.startswith / bytes `in`
EndsWith(name, suffix) ==
    /\ Len(suffix) <= Len(name)
    /\ SubSeq(name, Len(name) - Len(suffix) + 1, Len(name)) = suffix

StartsWith(bytes, prefix) ==
    /\ Len(prefix) <= Len(bytes)
    /\ SubSeq(bytes, 1, Len(prefix)) = prefix

Contains(bytes, part) ==
    \E i \in 1..(Len(bytes) - Len(part) + 1) : SubSeq(bytes, i, i + Len(part) - 1) = part

Min(a, b) == IF a <= b THEN a ELSE b

\* Config.ALLOWED_EXTENSIONS, the default of current_app.config['ALLOWED_EXTENSIONS']
ALLOWED_EXTENSIONS ==
    { <<"p", "n", "g">>, <<"j", "p", "g">>, <<"j", "p", "e", "g">>,
      <<"g", "i", "f">>, <<"m", "p", "4">>, <<"m", "o", "v">> }

\* allowed_file without .lower().
allowed_file_case_sensitive(filename) ==
    /\ LastDot(filename) > 0
    /\ SubSeq(filename, LastDot(filename) + 1, Len(filename)) \in upload.allowed

\* '.' in filename and filename.rsplit('.', 1)[1].lower() in
\* current_app.config['ALLOWED_EXTENSIONS']
allowed_file(filename) ==
    /\ LastDot(filename) > 0
    /\ Lower(SubSeq(filename, LastDot(filename) + 1, Len(filename))) \in upload.allowed

\* werkzeug.utils.secure_filename on POSIX: drop what is not ASCII, turn "/" into a
\* space, join the whitespace-separated words with "_", drop every character outside
\* [A-Za-z0-9_.-], strip "." and "_" from both ends.
SafeChars ==
    {UpperCase[i] : i \in 1..Len(UpperCase)} \cup {LowerCase[i] : i \in 1..Len(LowerCase)}
        \cup Digits \cup {"_", Dot, "-"}

RECURSIVE JoinWords(_, _, _)
JoinWords(s, pending, started) ==
    IF s = <<>> THEN <<>>
    ELSE IF Head(s) = " " THEN JoinWords(Tail(s), started, started)
    ELSE (IF pending THEN <<"_">> ELSE <<>>) \o <<Head(s)>> \o JoinWords(Tail(s), FALSE, TRUE)

RECURSIVE LStrip(_)
LStrip(s) == IF s # <<>> /\ Head(s) \in {Dot, "_"} THEN LStrip(Tail(s)) ELSE s

RECURSIVE RStrip(_)
RStrip(s) ==
    IF s # <<>> /\ s[Len(s)] \in {Dot, "_"} THEN RStrip(SubSeq(s, 1, Len(s) - 1)) ELSE s

secure_filename(filename) ==
    LET ascii == SelectSeq(filename, LAMBDA c : c \notin NonAscii)
        spaced == [i \in 1..Len(ascii) |-> IF ascii[i] = "/" THEN " " ELSE ascii[i]]
        joined == JoinWords(spaced, FALSE, FALSE)
        kept == SelectSeq(joined, LAMBDA c : c \in SafeChars)
    IN  RStrip(LStrip(kept))

\* os.path.splitext(p)[1] on POSIX: from the last dot of the last path component,
\* unless that component has only dots before it.
splitext_ext(p) ==
    LET slashes == {i \in 1..Len(p) : p[i] = "/"}
        sep == IF slashes = {} THEN 0 ELSE CHOOSE i \in slashes : \A j \in slashes : j <= i
        dot == LastDot(p)
    IN  IF dot > sep /\ \E i \in (sep + 1)..(dot - 1) : p[i] # Dot
        THEN SubSeq(p, dot, Len(p))
        ELSE <<>>

\* secure_filename_with_id without secure_filename: the extension of the raw name.
secure_filename_with_id_raw(filename, file_id) == file_id \o splitext_ext(filename)

\* f"{file_id}{ext}"
secure_filename_with_id(filename, file_id) == file_id \o splitext_ext(secure_filename(filename))

\* The signatures of the fallback check.
PNG_MAGIC == <<137, 80, 78, 71, 13, 10, 26, 10>>
JPEG_MAGIC == <<255, 216, 255>>
GIF_MAGIC == <<71, 73, 70, 56>>
FTYP == <<102, 116, 121, 112>>
FTYPQT == <<102, 116, 121, 112, 113, 116>>
QT == <<113, 116, 32, 32>>

HeaderLen == 2048       \* file_stream.read(2048)
ScanLen == 256          \* header[:256]

\* magic.from_buffer(header, mime=True): libmagic names the type the bytes carry.
from_buffer(header) ==
    IF StartsWith(header, PNG_MAGIC) THEN "image/png"
    ELSE IF StartsWith(header, JPEG_MAGIC) THEN "image/jpeg"
    ELSE IF StartsWith(header, GIF_MAGIC) THEN "image/gif"
    ELSE IF StartsWith(SubSeq(header, 5, Len(header)), FTYPQT) THEN "video/quicktime"
    ELSE IF StartsWith(SubSeq(header, 5, Len(header)), FTYP) THEN "video/mp4"
    ELSE IF header = <<>> THEN "application/x-empty"
    ELSE "text/plain"

SafeMimes == {"image/png", "image/jpeg", "image/gif", "video/mp4", "video/quicktime"}

\* The signature checks with 'ftyp' looked for in the whole header.
signature_ok_whole_header(header, filename) ==
    LET name == Lower(filename)
    IN  IF EndsWith(name, <<Dot, "p", "n", "g">>) THEN StartsWith(header, PNG_MAGIC)
        ELSE IF EndsWith(name, <<Dot, "j", "p", "g">>) \/ EndsWith(name, <<Dot, "j", "p", "e", "g">>)
             THEN StartsWith(header, JPEG_MAGIC)
        ELSE IF EndsWith(name, <<Dot, "g", "i", "f">>) THEN StartsWith(header, GIF_MAGIC)
        ELSE IF EndsWith(name, <<Dot, "m", "p", "4">>) THEN Contains(header, FTYP)
        ELSE IF EndsWith(name, <<Dot, "m", "o", "v">>)
             THEN Contains(header, FTYPQT) \/ Contains(header, QT)
        ELSE FALSE

\* The signature checks on the lowercased name.
signature_ok(header, filename) ==
    LET name == Lower(filename)
        head == SubSeq(header, 1, Min(Len(header), ScanLen))
    IN  IF EndsWith(name, <<Dot, "p", "n", "g">>) THEN StartsWith(header, PNG_MAGIC)
        ELSE IF EndsWith(name, <<Dot, "j", "p", "g">>) \/ EndsWith(name, <<Dot, "j", "p", "e", "g">>)
             THEN StartsWith(header, JPEG_MAGIC)
        ELSE IF EndsWith(name, <<Dot, "g", "i", "f">>) THEN StartsWith(header, GIF_MAGIC)
        ELSE IF EndsWith(name, <<Dot, "m", "p", "4">>) THEN Contains(head, FTYP)
        ELSE IF EndsWith(name, <<Dot, "m", "o", "v">>)
             THEN Contains(head, FTYPQT) \/ Contains(head, QT)
        ELSE FALSE

\* A stream is [data, size, pos, fail]: `size` bytes, of which `data` are the first
\* and the rest are zero; the read position; the stream call that raises ("seek",
\* "read" or "none").

\* The body of validate_file_type's try block: exc says that it raised, touched that
\* a method of the stream was called. sniffer is "absent" (magic is None), "present"
\* or "raises".
inspect(stream, filename, sniffer) ==
    IF filename = NoneName
    THEN [exc |-> TRUE, ret |-> FALSE, pos |-> stream.pos, touched |-> FALSE,
          outcome |-> "error"]
    ELSE IF ~allowed_file(filename)
    THEN [exc |-> FALSE, ret |-> FALSE, pos |-> stream.pos, touched |-> FALSE,
          outcome |-> "extension"]
    ELSE IF stream.fail = "seek"
    THEN [exc |-> TRUE, ret |-> FALSE, pos |-> stream.pos, touched |-> TRUE,
          outcome |-> "error"]
    ELSE IF stream.fail = "read"
    THEN [exc |-> TRUE, ret |-> FALSE, pos |-> 0, touched |-> TRUE, outcome |-> "error"]
    ELSE LET header == SubSeq(stream.data, 1, Min(Len(stream.data), HeaderLen))
         IN  IF sniffer = "present" /\ from_buffer(header) \in SafeMimes
             THEN [exc |-> FALSE, ret |-> TRUE, pos |-> 0, touched |-> TRUE,
                   outcome |-> "mime"]
             ELSE [exc |-> FALSE, ret |-> signature_ok(header, filename), pos |-> 0,
                   touched |-> TRUE, outcome |-> "signature"]

\* validate_file_type that sniffs the stream before it looks at the extension.
validate_file_type_sniffs_first(stream, filename, sniffer) ==
    LET header == SubSeq(stream.data, 1, Min(Len(stream.data), HeaderLen))
        r == inspect(stream, filename, sniffer)
    IN  IF stream.fail = "none" /\ sniffer = "present" /\ from_buffer(header) \in SafeMimes
        THEN [ret |-> TRUE, raised |-> FALSE, pos |-> 0, touched |-> TRUE,
              outcome |-> "mime"]
        ELSE [ret |-> r.ret, raised |-> FALSE, pos |-> r.pos, touched |-> r.touched,
              outcome |-> r.outcome]

\* validate_file_type without the outer try / except.
validate_file_type_no_except(stream, filename, sniffer) ==
    LET r == inspect(stream, filename, sniffer)
    IN  [ret |-> r.ret, raised |-> r.exc, pos |-> r.pos, touched |-> r.touched,
         outcome |-> r.outcome]

\* validate_file_type(file_stream, filename): the value returned, whether an exception
\* left the call, the stream's read position afterwards, whether the stream was used
\* and the branch taken. `except Exception: return False` ends every raising path.
validate_file_type(stream, filename, sniffer) ==
    LET r == inspect(stream, filename, sniffer)
    IN  [ret |-> IF r.exc THEN FALSE ELSE r.ret, raised |-> FALSE, pos |-> r.pos,
         touched |-> r.touched, outcome |-> r.outcome]

\* ---------------------------------------------------------------- uploads

\* Files whose 'ftyp' ends at byte 256 and at byte 257 of the header.
Zeros(n) == [i \in 1..n |-> 0]
FTYP_AT_EDGE == Zeros(ScanLen - Len(FTYP)) \o FTYP
FTYP_PAST_EDGE == Zeros(ScanLen - Len(FTYP) + 1) \o FTYP

FileNames ==
    { <<"x", Dot, "p", "n", "g">>, <<"x", Dot, "P", "N", "G">>, <<"x", Dot, "e", "x", "e">>,
      <<"x">>, <<"x", Dot, "j", "p", "g">>, <<"x", Dot, "j", "p", "e", "g">>,
      <<"x", Dot, "g", "i", "f">>, <<"x", Dot, "m", "p", "4">>, <<"x", Dot, "m", "o", "v">>,
      <<"x", Dot, "t", "x", "t">>, NoneName }

FileData ==
    { PNG_MAGIC \o <<0, 0>>,
      JPEG_MAGIC \o <<224>>,
      GIF_MAGIC \o <<57, 97>>,
      <<0, 0, 0, 24>> \o FTYP \o <<105, 115, 111, 109>>,
      <<0, 0, 0, 20>> \o FTYPQT \o <<32, 32>>,
      FTYP_AT_EDGE,
      FTYP_PAST_EDGE,
      <<84, 101, 120, 116>>,
      <<>> }

\* The streams over the contents D, each at its start, after its first byte and at
\* its end, sound or failing.
StreamsOf(D) ==
    UNION { [data : {d}, size : {Len(d)}, pos : {0, Min(1, Len(d)), Len(d)},
             fail : {"none", "seek", "read"}] : d \in D }

Streams == StreamsOf(FileData)

Sniffers == {"absent", "present", "raises"}

TXT == <<"t", "x", "t">>
AllowSets == {ALLOWED_EXTENSIONS, ALLOWED_EXTENSIONS \cup {TXT}}

FileIds == {<<"a", "b", "c", "1", "2", "3">>, <<"1", "2", "3", "4", "-", "5", "6", "7", "8">>}

\* No request is being served.
NoUpload ==
    [name |-> <<>>, stream |-> [data |-> <<>>, size |-> 0, pos |-> 0, fail |-> "none"],
     sniffer |-> "absent", allowed |-> {}, id |-> <<>>]

NotValidated ==
    [done |-> FALSE, ret |-> FALSE, raised |-> FALSE, touched |-> FALSE,
     outcome |-> "none", prePos |-> 0]

NoService == [op |-> "none", exc |-> "none", ret |-> <<>>, prePos |-> 0, before |-> {}]

InitUpload ==
    /\ InitLimiter(OneKey, "none")
    /\ config = NoConfig
    /\ threads = IdleThreads
    /\ upload = NoUpload
    /\ validated = NotValidated
    /\ folder = {}
    /\ service = NoService
    /\ request = IdleUpload
    /\ db = IdleUpload

\* A request arrives with an upload candidate.
Arrive(candidates) ==
    /\ upload = NoUpload
    /\ upload' \in candidates
    /\ UNCHANGED <<request, db, admitted, now, buckets, last, hist, shadow, fit, remW, run, denied, config,
                   threads, validated, folder, service>>

\* The request hands its stream and file name to validate_file_type.
Validate ==
    LET r == validate_file_type(upload.stream, upload.name, upload.sniffer)
    IN  /\ upload # NoUpload
        /\ ~validated.done
        /\ upload' = [upload EXCEPT !.stream.pos = r.pos]
        /\ validated' = [done |-> TRUE, ret |-> r.ret, raised |-> r.raised,
                         touched |-> r.touched, outcome |-> r.outcome,
                         prePos |-> upload.stream.pos]
        /\ UNCHANGED <<request, db, admitted, now, buckets, last, hist, shadow, fit, remW, run, denied, config,
                       threads, folder, service>>

\* The request is over.
NewUpload ==
    /\ validated.done \/ service.op # "none"
    /\ upload' = NoUpload
    /\ validated' = NotValidated
    /\ service' = NoService
    /\ UNCHANGED <<request, db, admitted, now, buckets, last, hist, shadow, fit, remW, run, denied, config,
                   threads, folder>>

ValidateCandidates ==
    [name : FileNames, stream : Streams, sniffer : Sniffers, allowed : AllowSets,
     id : {<<"a", "b", "c", "1", "2", "3">>}]

NextUpload ==
    \/ Arrive(ValidateCandidates)
    \/ Validate
    \/ NewUpload

SpecUpload == InitUpload /\ [][NextUpload]_vars

\* C10: whatever the outcome and whatever the stream's read position before the call,
\* validate_file_type leaves the stream's read position where it was.
C10_StreamPositionRestored ==
    validated.done => (upload.stream.pos = validated.prePos)

\* ---------------------------------------------------------------- file_service.py

\* Config.MAX_CONTENT_LENGTH, the default of current_app.config['MAX_CONTENT_LENGTH']
MAX_CONTENT_LENGTH == 10 * 1024 * 1024

\* validate_file_size with < for <=.
validate_file_size_strict(stream) ==
    IF stream.fail = "seek"
    THEN [exc |-> "OSError", ret |-> FALSE, pos |-> stream.pos]
    ELSE [exc |-> "none", ret |-> stream.size < MAX_CONTENT_LENGTH, pos |-> 0]

\* file.seek(0, 2); size = file.tell(); file.seek(0); return size <= MAX_CONTENT_LENGTH
validate_file_size(stream) ==
    IF stream.fail = "seek"
    THEN [exc |-> "OSError", ret |-> FALSE, pos |-> stream.pos]
    ELSE [exc |-> "none", ret |-> stream.size <= MAX_CONTENT_LENGTH, pos |-> 0]

\* save_uploaded_file that writes the file before it validates it.
save_uploaded_file_saves_first(file, file_id, files) ==
    LET v == validate_file_type(file.stream, file.name, file.sniffer)
        filename == IF file.name = NoneName THEN file_id
                    ELSE secure_filename_with_id(file.name, file_id)
    IN  IF file.name \in {NoneName, <<>>} \/ ~allowed_file(file.name) \/ ~v.ret
        THEN [exc |-> "ValueError", ret |-> <<>>, files |-> files \cup {filename},
              pos |-> file.stream.size]
        ELSE [exc |-> "none", ret |-> filename, files |-> files \cup {filename},
              pos |-> file.stream.size]

\* FileService.save_uploaded_file(file, file_id) with `files` in UPLOAD_FOLDER: the
\* exception raised, the name returned, the files afterwards and the stream's read
\* position afterwards. `not file` is FileStorage.__bool__, bool(file.filename);
\* file.save copies the stream from its position to its end.
save_uploaded_file(file, file_id, files) ==
    IF file.name \in {NoneName, <<>>}
    THEN [exc |-> "ValueError", ret |-> <<>>, files |-> files, pos |-> file.stream.pos]
    ELSE IF ~allowed_file(file.name)
    THEN [exc |-> "ValueError", ret |-> <<>>, files |-> files, pos |-> file.stream.pos]
    ELSE LET v == validate_file_type(file.stream, file.name, file.sniffer)
             filename == secure_filename_with_id(file.name, file_id)
         IN  IF ~v.ret
             THEN [exc |-> "ValueError", ret |-> <<>>, files |-> files, pos |-> v.pos]
             ELSE [exc |-> "none", ret |-> filename, files |-> files \cup {filename},
                   pos |-> file.stream.size]

\* The file names a client sends.
ClientNames ==
    { <<Dot, Dot, "/", Dot, Dot, "/", "e", "t", "c", "/", "p", "a", "s", "s", "w", "d",
        Dot, "p", "n", "g">>,
      <<"a", " ", "b", Dot, "P", "N", "G">>,
      <<Dot, "p", "n", "g">>,
      <<"U+65E5", Dot, "p", "n", "g">>,
      <<"a", Dot, "e", "x", "e", Dot, "p", "n", "g">>,
      <<"a", Dot, "p", "n", "g", Dot, "e", "x", "e">>,
      <<"x", Dot, "p", "n", "g">>,
      <<"x", Dot, "P", "n", "g">>,
      <<"p", "n", "g">>,
      <<>>,
      <<Dot, Dot, "\\", "x", Dot, "p", "n", "g">>,
      <<"a", Dot, "p", "n", "g", "\\", "b">>,
      <<"a", Dot, "p", "n", "g", Dot>>,
      <<" ", Dot, Dot, "x", Dot, "j", "p", "g">>,
      <<"x", Dot, "t", "x", "t">>,
      NoneName }

ClientData == {PNG_MAGIC \o <<0, 0>>, JPEG_MAGIC \o <<224>>, <<84, 101, 120, 116>>, <<>>}

\* Uploads around the size limit: a PNG header followed by zeros.
BigStreams ==
    [data : {PNG_MAGIC}, pos : {0, 1},
     size : {MAX_CONTENT_LENGTH - 1, MAX_CONTENT_LENGTH, MAX_CONTENT_LENGTH + 1,
             11 * 1024 * 1024},
     fail : {"none"}]

ClientStreams ==
    BigStreams \cup
    UNION { [data : {d}, size : {Len(d)}, pos : {0, Len(d)}, fail : {"none", "seek", "read"}] :
            d \in ClientData }

ClientCandidates ==
    [name : ClientNames, stream : ClientStreams, sniffer : {"absent", "present"},
     allowed : AllowSets, id : FileIds]

\* allowed_file(file.filename)
AllowedFile ==
    /\ upload # NoUpload
    /\ service.op = "none"
    /\ ~validated.done
    /\ upload.name # NoneName
    /\ service' = [NoService EXCEPT !.op = "allowed_file", !.ret = allowed_file(upload.name)]
    /\ UNCHANGED <<request, db, admitted, now, buckets, last, hist, shadow, fit, remW, run, denied, config,
                   threads, upload, validated, folder>>

\* secure_filename_with_id(file.filename, file_id)
SecureFilenameWithId ==
    /\ upload # NoUpload
    /\ service.op = "none"
    /\ ~validated.done
    /\ upload.name # NoneName
    /\ service' = [NoService EXCEPT !.op = "secure_filename_with_id",
                                    !.ret = secure_filename_with_id(upload.name, upload.id)]
    /\ UNCHANGED <<request, db, admitted, now, buckets, last, hist, shadow, fit, remW, run, denied, config,
                   threads, upload, validated, folder>>

\* FileService.validate_file_size(file)
ValidateFileSize ==
    LET r == validate_file_size(upload.stream)
    IN  /\ upload # NoUpload
        /\ service.op = "none"
        /\ ~validated.done
        /\ service' = [NoService EXCEPT !.op = "validate_file_size", !.exc = r.exc,
                                        !.ret = r.ret, !.prePos = upload.stream.pos]
        /\ upload' = [upload EXCEPT !.stream.pos = r.pos]
        /\ UNCHANGED <<request, db, admitted, now, buckets, last, hist, shadow, fit, remW, run, denied, config,
                       threads, validated, folder>>

\* FileService.save_uploaded_file(file, file_id)
SaveUploadedFile ==
    LET r == save_uploaded_file(upload, upload.id, folder)
    IN  /\ upload # NoUpload
        /\ service.op = "none"
        /\ ~validated.done
        /\ Cardinality(r.files) <= MaxFiles
        /\ service' = [NoService EXCEPT !.op = "save_uploaded_file", !.exc = r.exc,
                                        !.ret = r.ret, !.prePos = upload.stream.pos,
                                        !.before = folder]
        /\ folder' = r.files
        /\ upload' = [upload EXCEPT !.stream.pos = r.pos]
        /\ UNCHANGED <<request, db, admitted, now, buckets, last, hist, shadow, fit, remW, run, denied, config,
                       threads, validated>>

NextFiles ==
    \/ Arrive(ClientCandidates)
    \/ AllowedFile
    \/ SecureFilenameWithId
    \/ ValidateFileSize
    \/ SaveUploadedFile
    \/ NewUpload

SpecFiles == InitUpload /\ [][NextFiles]_vars

\* ---------------------------------------------------------------- auth_routes.py

\* One client address and one account name.
LoginKey == "login:A"
RegisterKey == "register:A"
AuthFailKey == "auth_fail:A:u"
AuthKeys == {LoginKey, AuthFailKey}
Account == "u"

Methods == {"GET", "POST"}

\* No request has been served since the clock last moved.
NoRequest == [handler |-> "none"]

\* login that also refuses a client whose failure counter has reached the limit.
login_locks_on_failures(form, bkts, users, t) ==
    LET r == check_rate_limit(bkts[LoginKey], config.limit, config.window, t)
        gated == [bkts EXCEPT ![LoginKey] = r.bucket]
        fails == _prune(bkts[AuthFailKey], config.window, t)
        f == record_failure(bkts[AuthFailKey], config.window, t + form.elapsed)
    IN  IF form.method = "GET"
        THEN [status |-> 200, work |-> <<>>, buckets |-> bkts, end |-> t, passed |-> FALSE]
        ELSE IF ~r.ret \/ Len(fails) >= config.limit
        THEN [status |-> 429, work |-> <<>>, buckets |-> gated, end |-> t, passed |-> FALSE]
        ELSE IF Account \in users /\ form.password
        THEN [status |-> 302, work |-> <<"user_lookup", "check_password", "login_user">>,
              buckets |-> gated, end |-> t + form.elapsed, passed |-> TRUE]
        ELSE [status |-> 200, work |-> <<"user_lookup", "record_failure">>,
              buckets |-> [gated EXCEPT ![AuthFailKey] = f.bucket],
              end |-> t + form.elapsed, passed |-> TRUE]

\* login(): the response status, the work done after the limiter was consulted, the
\* buckets afterwards and the time the request ends. form.elapsed is the time that
\* passes between check_rate_limit and record_failure.
login(form, bkts, users, t) ==
    LET r == check_rate_limit(bkts[LoginKey], config.limit, config.window, t)
        gated == [bkts EXCEPT ![LoginKey] = r.bucket]
        f == record_failure(bkts[AuthFailKey], config.window, t + form.elapsed)
    IN  IF form.method = "GET"
        THEN [status |-> 200, work |-> <<>>, buckets |-> bkts, end |-> t, passed |-> FALSE]
        ELSE IF ~r.ret
        THEN [status |-> 429, work |-> <<>>, buckets |-> gated, end |-> t, passed |-> FALSE]
        ELSE IF Account \in users /\ form.password
        THEN [status |-> 302, work |-> <<"user_lookup", "check_password", "login_user">>,
              buckets |-> gated, end |-> t + form.elapsed, passed |-> TRUE]
        ELSE [status |-> 200,
              work |-> <<"user_lookup">>
                       \o (IF Account \in users THEN <<"check_password">> ELSE <<>>)
                       \o <<"record_failure">>,
              buckets |-> [gated EXCEPT ![AuthFailKey] = f.bucket],
              end |-> t + form.elapsed, passed |-> TRUE]

\* register(): form.valid says that the username, email, password and role pass
\* their validators.
register(form, bkts, users, t) ==
    LET r == check_rate_limit(bkts[RegisterKey], config.limit, config.window, t)
        gated == [bkts EXCEPT ![RegisterKey] = r.bucket]
    IN  IF form.method = "GET"
        THEN [status |-> 200, work |-> <<>>, buckets |-> bkts, users |-> users]
        ELSE IF ~r.ret
        THEN [status |-> 429, work |-> <<>>, buckets |-> gated, users |-> users]
        ELSE IF ~form.valid
        THEN [status |-> 200, work |-> <<"validate">>, buckets |-> gated, users |-> users]
        ELSE IF Account \in users
        THEN [status |-> 200, work |-> <<"validate", "user_lookup">>, buckets |-> gated,
              users |-> users]
        ELSE [status |-> 302,
              work |-> <<"validate", "user_lookup", "email_lookup", "insert_user">>,
              buckets |-> gated, users |-> users \cup {Account}]

InitRoutes(K) ==
    /\ InitLimiter(K, "cap")
    /\ config \in [limit : 1..MaxLimit, window : Windows]
    /\ threads = IdleThreads
    /\ upload = IdleUpload
    /\ validated = IdleUpload
    /\ folder = {}
    /\ service = IdleUpload
    /\ request = NoRequest
    /\ db \in [users : SUBSET {Account}]

InitAuth == InitRoutes(AuthKeys)
InitRegister == InitRoutes({RegisterKey})

\* The clock moves on between two requests.
Wait ==
    /\ now < MaxTime
    /\ now' = now + 1
    /\ request' = NoRequest
    /\ UNCHANGED <<db, admitted, buckets, last, hist, shadow, fit, remW, run, denied,
                   config, threads, upload, validated, folder, service>>

\* A request to /login is served.
Login(form) ==
    LET r == login(form, buckets, db.users, now)
    IN  /\ r.end <= MaxTime
        /\ \A k \in AuthKeys : Len(r.buckets[k]) <= MaxBucket
        /\ buckets' = r.buckets
        /\ now' = r.end
        /\ admitted' = IF r.passed
                       THEN [admitted EXCEPT ![LoginKey] = Append(admitted[LoginKey], now)]
                       ELSE admitted
        /\ request' = [handler |-> "login", method |-> form.method, status |-> r.status,
                       work |-> r.work, at |-> now, earlier |-> admitted[LoginKey]]
        /\ UNCHANGED <<db, last, hist, shadow, fit, remW, run, denied, config, threads,
                       upload, validated, folder, service>>

\* A request to /register is served.
Register(form) ==
    LET r == register(form, buckets, db.users, now)
    IN  /\ buckets' = r.buckets
        /\ db' = [db EXCEPT !.users = r.users]
        /\ request' = [handler |-> "register", method |-> form.method, status |-> r.status,
                       work |-> r.work, at |-> now, earlier |-> admitted[RegisterKey]]
        /\ UNCHANGED <<now, admitted, last, hist, shadow, fit, remW, run, denied, config,
                       threads, upload, validated, folder, service>>

LoginForms == [method : Methods, password : BOOLEAN, elapsed : {0, 1}]
RegisterForms == [method : Methods, valid : BOOLEAN]

NextAuth ==
    \/ Wait
    \/ \E form \in LoginForms : Login(form)

SpecAuth == InitAuth /\ [][NextAuth]_vars

NextRegister ==
    \/ Wait
    \/ \E form \in RegisterForms : Register(form)

SpecRegister == InitRegister /\ [][NextRegister]_vars

\* ---------------------------------------------------------------- submission_routes.py

UploadKey == "upload:A"

MaxReflection == 5000       \* len(reflection_text) > 5000
DefaultMaxLength == 5000    \* sanitize_input(text, max_length: int = 5000)

\* str.strip() for blanks.
RECURSIVE LTrim(_)
LTrim(s) == IF s # <<>> /\ Head(s) = " " THEN LTrim(Tail(s)) ELSE s

RECURSIVE RTrim(_)
RTrim(s) == IF s # <<>> /\ s[Len(s)] = " " THEN RTrim(SubSeq(s, 1, Len(s) - 1)) ELSE s

Trim(s) == RTrim(LTrim(s))

\* sanitize_input without the removal of angle brackets.
sanitize_input_keeps_brackets(text, max_length) ==
    IF text = NoneName THEN <<>>
    ELSE LET cleaned == Trim(text)
         IN  IF max_length > 0 THEN SubSeq(cleaned, 1, Min(Len(cleaned), max_length))
             ELSE cleaned

\* sanitize_input(text, max_length): None becomes '', '<' and '>' are removed, the
\* rest is stripped and cut to max_length.
sanitize_input(text, max_length) ==
    IF text = NoneName THEN <<>>
    ELSE LET cleaned == Trim(SelectSeq(text, LAMBDA c : c \notin {"<", ">"}))
         IN  IF max_length > 0 THEN SubSeq(cleaned, 1, Min(Len(cleaned), max_length))
             ELSE cleaned

\* The reflection texts a client sends.
Reflections == {"missing", "blank", "ok", "long"}

LongReflection == [i \in 1..(MaxReflection + 1) |-> "a"]

ReflectionText(tag) ==
    CASE tag = "missing" -> <<>>
      [] tag = "blank" -> <<" ", "<", ">", " ">>
      [] tag = "ok" -> <<"o", "k">>
      [] tag = "long" -> LongReflection

\* What save_uploaded_file did before it returned or raised.
SaveWork(file, r) ==
    IF file.name \in {NoneName, <<>>} THEN <<>>
    ELSE IF ~allowed_file(file.name) THEN <<"allowed_file">>
    ELSE IF r.exc # "none" THEN <<"allowed_file", "validate_file_type">>
    ELSE <<"allowed_file", "validate_file_type", "file_save">>

\* The upload part of submit_task that saves the file without looking at it.
handle_upload_unvalidated(form, file, files) ==
    LET filename == secure_filename_with_id(file.name, file.id)
    IN  IF ~form.attach \/ file.name \in {NoneName, <<>>}
        THEN [media |-> <<>>, raised |-> FALSE, too_large |-> FALSE, files |-> files,
              pos |-> file.stream.pos, work |-> <<>>]
        ELSE [media |-> filename, raised |-> FALSE, too_large |-> FALSE,
              files |-> files \cup {filename}, pos |-> file.stream.size,
              work |-> <<"file_save">>]

\* Lines 43-52 of submit_task once validate_file_size has returned vs and
\* save_uploaded_file sv: media is media_filename (<<>> for None), raised says that an
\* exception was raised, too_large that the size check failed.
upload_outcome(form, file, files, vs, sv) ==
    IF ~form.attach \/ file.name \in {NoneName, <<>>}
    THEN [media |-> <<>>, raised |-> FALSE, too_large |-> FALSE, files |-> files,
          pos |-> file.stream.pos, work |-> <<>>]
    ELSE IF vs.exc # "none"
    THEN [media |-> <<>>, raised |-> TRUE, too_large |-> FALSE, files |-> files,
          pos |-> vs.pos, work |-> <<"validate_file_size">>]
    ELSE IF ~vs.ret
    THEN [media |-> <<>>, raised |-> FALSE, too_large |-> TRUE, files |-> files,
          pos |-> vs.pos, work |-> <<"validate_file_size">>]
    ELSE [media |-> sv.ret, raised |-> sv.exc # "none", too_large |-> FALSE,
          files |-> sv.files, pos |-> sv.pos,
          work |-> <<"validate_file_size">> \o SaveWork(file, sv)]

\* The upload part of submit_task: validate_file_size, then save_uploaded_file on
\* the stream that validate_file_size has rewound.
handle_upload(form, file, files) ==
    upload_outcome(form, file, files, validate_file_size(file.stream),
                   save_uploaded_file([file EXCEPT !.stream.pos = 0], file.id, files))

\* submit_task once check_rate_limit has returned r, the upload part up and
\* sanitize_input the reflection: the response status, the branch that ended the
\* request, the work done in order, and the buckets, the upload folder, the Submission
\* rows and the stream position afterwards.
respond(form, r, up, reflection, bkts, rows, pos) ==
    LET gated == [bkts EXCEPT ![UploadKey] = r.bucket]
        looked == <<"quest_lookup", "task_lookup">>
        base == [status |-> 200, outcome |-> "form", work |-> looked, buckets |-> gated,
                 files |-> up.files, rows |-> rows, pos |-> pos]
        tried == [base EXCEPT !.work = looked \o up.work, !.pos = up.pos]
    IN  IF ~form.quest
        THEN [base EXCEPT !.status = 302, !.outcome = "quest_missing",
                          !.work = <<"quest_lookup">>, !.buckets = bkts]
        ELSE IF ~r.ret
        THEN [base EXCEPT !.status = 429, !.outcome = "rate_limited",
                          !.work = <<"quest_lookup">>]
        ELSE IF ~form.task
        THEN [base EXCEPT !.status = 302, !.outcome = "task_missing"]
        ELSE IF form.method = "GET" THEN base
        ELSE IF up.raised THEN [tried EXCEPT !.outcome = "error"]
        ELSE IF up.too_large THEN [tried EXCEPT !.outcome = "too_large"]
        ELSE IF up.media = <<>> THEN [tried EXCEPT !.outcome = "no_file"]
        ELSE IF reflection = <<>> THEN [tried EXCEPT !.outcome = "no_reflection"]
        ELSE IF Len(reflection) > MaxReflection THEN [tried EXCEPT !.outcome = "too_long"]
        ELSE IF form.dbfail
        THEN [tried EXCEPT !.outcome = "error", !.work = @ \o <<"insert_submission">>]
        ELSE [tried EXCEPT !.outcome = "created", !.work = @ \o <<"insert_submission">>,
                           !.rows = rows \cup {[media_filename |-> up.media,
                                                reflection |-> Len(reflection)]}]

\* A request that never reaches the try block has no upload part.
NoUploadPart(file, files) ==
    [media |-> <<>>, raised |-> FALSE, too_large |-> FALSE, files |-> files,
     pos |-> file.stream.pos, work |-> <<>>]

\* submit_task(quest_id, task_id)
submit_task(form, file, bkts, files, rows, t) ==
    respond(form,
            check_rate_limit(bkts[UploadKey], config.limit, config.window, t),
            IF form.quest /\ form.task /\ form.method = "POST"
            THEN handle_upload(form, file, files) ELSE NoUploadPart(file, files),
            sanitize_input(Trim(ReflectionText(form.reflection)), DefaultMaxLength),
            bkts, rows, file.stream.pos)

SubmitNames ==
    { <<"x", Dot, "p", "n", "g">>, <<"x", Dot, "e", "x", "e">>, <<>> }

SubmitStreams ==
    [data : {PNG_MAGIC}, pos : {0}, size : {Len(PNG_MAGIC), MAX_CONTENT_LENGTH + 1},
     fail : {"none"}]
    \cup [data : {<<84, 101, 120, 116>>}, pos : {0}, size : {4}, fail : {"none", "seek"}]

SubmitCandidates ==
    [name : SubmitNames, stream : SubmitStreams, sniffer : {"absent"},
     allowed : {ALLOWED_EXTENSIONS}, id : FileIds]

\* uuid.uuid4() has not been handed out before.
Fresh(id) == \A f \in folder : ~StartsWith(f, id)

\* The requests: any method for a quest or task that may be unknown, and POSTs for a
\* known task with or without a file, with each reflection text, with the database
\* failing or not.
SubmitForms ==
    [method : Methods, quest : BOOLEAN, task : BOOLEAN, attach : {FALSE},
     reflection : {"missing"}, dbfail : {FALSE}]
    \cup [method : {"POST"}, quest : {TRUE}, task : {TRUE}, attach : BOOLEAN,
          reflection : Reflections, dbfail : BOOLEAN]

InitSubmit ==
    /\ InitLimiter({UploadKey}, "none")
    /\ config \in [limit : 1..MaxLimit, window : Windows]
    /\ threads = IdleThreads
    /\ upload = NoUpload
    /\ validated = NotValidated
    /\ folder = {}
    /\ service = NoService
    /\ request = NoRequest
    /\ db = [submissions |-> {}]

\* A request to /quest/<quest_id>/task/<task_id>/submit is served.
SubmitTask(form) ==
    LET r == submit_task(form, upload, buckets, folder, db.submissions, now)
    IN  /\ upload # NoUpload
        /\ request.handler = "none"
        /\ Cardinality(r.files) <= MaxFiles
        /\ buckets' = r.buckets
        /\ folder' = r.files
        /\ db' = [db EXCEPT !.submissions = r.rows]
        /\ upload' = [upload EXCEPT !.stream.pos = r.pos]
        /\ request' = [handler |-> "submit_task", method |-> form.method,
                       status |-> r.status, work |-> r.work, outcome |-> r.outcome,
                       quest |-> form.quest, task |-> form.task, attach |-> form.attach,
                       bucket |-> buckets[UploadKey], files |-> folder,
                       rows |-> db.submissions]
        /\ UNCHANGED <<now, admitted, last, hist, shadow, fit, remW, run, denied, config,
                       threads, validated, service>>

\* The response has been sent.
EndRequest ==
    /\ request.handler # "none"
    /\ request' = NoRequest
    /\ upload' = NoUpload
    /\ UNCHANGED <<now, db, admitted, buckets, last, hist, shadow, fit, remW, run, denied,
                   config, threads, validated, folder, service>>

\* The clock moves on between two requests.
Idle ==
    /\ now < MaxTime
    /\ upload = NoUpload
    /\ now' = now + 1
    /\ UNCHANGED <<request, db, admitted, buckets, last, hist, shadow, fit, remW, run,
                   denied, config, threads, upload, validated, folder, service>>

NextSubmit ==
    \/ Idle
    \/ Arrive({c \in SubmitCandidates : Fresh(c.id)})
    \/ \E form \in SubmitForms : SubmitTask(form)
    \/ EndRequest

SpecSubmit == InitSubmit /\ [][NextSubmit]_vars

\* ---------------------------------------------------------------- quest_service.py

\* A Quest row is [id, title, tags, published], a Task row [quest_id, title, prompt].
\* Quest.tags is JSON text: [kind |-> "json", items |-> the list it encodes], or, when
\* the caller passed a string that is no JSON, [kind |-> "text", text |-> the string].

\* str.split(','): the pieces of text between the commas.
RECURSIVE Split(_)
Split(text) ==
    IF \E i \in 1..Len(text) : text[i] = ","
    THEN LET i == CHOOSE i \in 1..Len(text) :
                      text[i] = "," /\ \A j \in 1..(i - 1) : text[j] # ","
         IN  <<SubSeq(text, 1, i - 1)>> \o Split(SubSeq(text, i + 1, Len(text)))
    ELSE <<text>>

\* [f(t) for t in items if t.strip()] with f = strip, and with f = strip().lower()
Stripped(items) ==
    LET kept == SelectSeq(items, LAMBDA t : Trim(t) # <<>>)
    IN  [i \in 1..Len(kept) |-> Trim(kept[i])]

StrippedLower(items) ==
    LET kept == SelectSeq(items, LAMBDA t : Trim(t) # <<>>)
    IN  [i \in 1..Len(kept) |-> Lower(Trim(kept[i]))]

Elements(seq) == {seq[i] : i \in 1..Len(seq)}

\* The tasks of quest_data that have a title and a prompt after sanitisation.
RECURSIVE NewTasks(_, _)
NewTasks(tasks, id) ==
    IF tasks = <<>> THEN {}
    ELSE LET title == sanitize_input(Head(tasks).title, DefaultMaxLength)
             prompt == sanitize_input(Head(tasks).prompt, DefaultMaxLength)
         IN  (IF title = <<>> \/ prompt = <<>> THEN {}
              ELSE {[quest_id |-> id, title |-> title, prompt |-> prompt]})
             \cup NewTasks(Tail(tasks), id)

\* QuestService.create_quest(quest_data) on the rows `rows`; quest_data.fail says that
\* db.session.commit() raises, which is answered by a rollback.
create_quest(quest_data, rows) ==
    LET title == sanitize_input(quest_data.title, DefaultMaxLength)
        id == Len(rows.quests) + 1
        quest == [id |-> id, title |-> title, tags |-> quest_data.tags,
                  published |-> quest_data.published]
    IN  IF title = <<>>
        THEN [exc |-> "ValueError", rows |-> rows]
        ELSE IF quest_data.fail
        THEN [exc |-> "SQLAlchemyError", rows |-> rows]
        ELSE [exc |-> "none",
              rows |-> [quests |-> Append(rows.quests, quest),
                        tasks |-> rows.tasks \cup NewTasks(quest_data.tasks, id)]]

\* json.loads(q.tags), or the comma-separated fallback
q_tags(q) ==
    IF q.tags.kind = "json" THEN q.tags.items ELSE Stripped(Split(q.tags.text))

\* tag_list of get_published_quests
tag_list(filters) ==
    IF filters.kind = "str" THEN StrippedLower(Split(filters.tags))
    ELSE IF filters.kind = "list" THEN StrippedLower(filters.tags)
    ELSE <<>>

Reverse(seq) == [i \in 1..Len(seq) |-> seq[Len(seq) + 1 - i]]

\* get_published_quests that compares the quests' tags as they are written.
get_published_quests_case_sensitive(filters, rows) ==
    LET quests == Reverse(SelectSeq(rows.quests, LAMBDA q : q.published))
    IN  IF filters.kind # "none" /\ filters.tags # <<>> /\ tag_list(filters) # <<>>
        THEN SelectSeq(quests, LAMBDA q :
                 \E tag \in Elements(q_tags(q)) : tag \in Elements(tag_list(filters)))
        ELSE quests

\* QuestService.get_published_quests(filters): filters is [kind |-> "none"] for None,
\* or holds the 'tags' value, a string or a list.
get_published_quests(filters, rows) ==
    LET quests == Reverse(SelectSeq(rows.quests, LAMBDA q : q.published))
    IN  IF filters.kind # "none" /\ filters.tags # <<>> /\ tag_list(filters) # <<>>
        THEN SelectSeq(quests, LAMBDA q :
                 \E tag \in Elements(q_tags(q)) : Lower(tag) \in Elements(tag_list(filters)))
        ELSE quests

Titles == {NoneName, <<>>, <<"<", ">">>, <<" ">>, <<"Q">>, <<"<", "Q", ">">>}

QuestTags ==
    { [kind |-> "json", items |-> <<>>],
      [kind |-> "json", items |-> <<<<"p">>>>],
      [kind |-> "json", items |-> <<<<"P">>, <<"b">>>>],
      [kind |-> "text", text |-> <<"s", ",", " ", "B">>] }

TaskLists ==
    { <<>>,
      <<[title |-> <<"T">>, prompt |-> <<"d", "o">>]>>,
      <<[title |-> <<"<", ">">>, prompt |-> <<"d", "o">>],
        [title |-> <<"T">>, prompt |-> NoneName]>> }

QuestData ==
    [title : Titles, tags : {[kind |-> "json", items |-> <<<<"p">>>>]},
     published : {TRUE}, tasks : TaskLists, fail : {FALSE}]
    \cup [title : {<<"Q">>}, tags : QuestTags, published : BOOLEAN,
          tasks : {<<>>, <<[title |-> <<"T">>, prompt |-> <<"d", "o">>]>>},
          fail : BOOLEAN]

Filters ==
    { [kind |-> "none", tags |-> <<>>],
      [kind |-> "str", tags |-> <<>>],
      [kind |-> "str", tags |-> <<"p">>],
      [kind |-> "str", tags |-> <<"P", " ", ",", "b">>],
      [kind |-> "str", tags |-> <<",", " ">>],
      [kind |-> "str", tags |-> <<"x">>],
      [kind |-> "list", tags |-> <<<<"B">>, <<"s">>>>],
      [kind |-> "list", tags |-> <<<<" ">>>>] }

NoRows == [quests |-> <<>>, tasks |-> {}]

InitQuests ==
    /\ InitLimiter(OneKey, "none")
    /\ config = NoConfig
    /\ threads = IdleThreads
    /\ upload = IdleUpload
    /\ validated = IdleUpload
    /\ folder = {}
    /\ service = NoService
    /\ request = IdleUpload
    /\ db = NoRows

\* QuestService.create_quest(quest_data)
CreateQuest(quest_data) ==
    LET r == create_quest(quest_data, db)
    IN  /\ Len(r.rows.quests) <= MaxQuests
        /\ db' = r.rows
        /\ service' = [op |-> "create_quest", exc |-> r.exc, arg |-> quest_data,
                       ret |-> <<>>, before |-> db]
        /\ UNCHANGED <<now, request, admitted, buckets, last, hist, shadow, fit, remW, run,
                       denied, config, threads, upload, validated, folder>>

\* QuestService.get_published_quests(filters)
GetPublishedQuests(filters) ==
    /\ service' = [op |-> "get_published_quests", exc |-> "none", arg |-> filters,
                   ret |-> get_published_quests(filters, db), before |-> db]
    /\ UNCHANGED <<now, db, request, admitted, buckets, last, hist, shadow, fit, remW, run,
                   denied, config, threads, upload, validated, folder>>

NextQuests ==
    \/ \E quest_data \in QuestData : CreateQuest(quest_data)
    \/ \E filters \in Filters : GetPublishedQuests(filters)

SpecQuests == InitQuests /\ [][NextQuests]_vars

\* ---------------------------------------------------------------- the limiter's claims

\* The timestamps of b that are not older than t - window, in order.
NonExpired(b, window, t) == SelectSeq(b, LAMBDA x : x >= t - window)

Bucket == buckets[last.key]

\* C1: from an empty bucket, of the calls check_rate_limit(k, n, w) with n >= 1 made
\* while the first entry has not aged out, the first n are allowed and every further
\* one is denied.
C1_FirstNAllowedThenDenied ==
    (last.op = "check" /\ run[last.key].active /\ run[last.key].limit >= 1)
        => (last.ret = (run[last.key].calls <= run[last.key].limit))

\* Three quick calls with n = 2: the third has just been denied.
C1_Witness ==
    /\ last.op = "check"
    /\ run[last.key].active
    /\ run[last.key].limit = 2
    /\ run[last.key].calls = 3
    /\ last.ret = FALSE

\* C2: a call with n >= 1 made when fewer than n recorded timestamps are >= now - w is
\* allowed, and so is every call made later than the newest recorded timestamp + w:
\* a denied key is admitted again once time has passed.
C2_AdmittedOnceAgedOut ==
    (last.op = "check" /\ last.limit >= 1) =>
        /\ (Len(NonExpired(last.pre, last.window, last.at)) < last.limit) => (last.ret = TRUE)
        /\ (last.pre # <<>> /\ last.at > last.pre[Len(last.pre)] + last.window)
               => (last.ret = TRUE)

\* The same call was denied at an earlier time, and is allowed now on a bucket that
\* still held timestamps.
C2_Witness ==
    /\ last.op = "check"
    /\ last.ret = TRUE
    /\ last.pre # <<>>
    /\ denied[last.key].any
    /\ denied[last.key].limit = last.limit
    /\ denied[last.key].window = last.window
    /\ denied[last.key].at < last.at

\* C3 as stated: a denied call leaves the key's sequence of timestamps as it was.
C3_DeniedLeavesBucketUnchanged ==
    (last.op = "check" /\ last.ret = FALSE) => (Bucket = last.pre)

\* C3 as amended: a denied call appends nothing and removes only the expired entries;
\* the timestamps not older than now - w stay, in order.
C3_DeniedOnlyPrunes ==
    (last.op = "check" /\ last.ret = FALSE)
        => (Bucket = NonExpired(last.pre, last.window, last.at))

\* A denied call that dropped an expired entry.
C3_Witness ==
    /\ last.op = "check"
    /\ last.ret = FALSE
    /\ last.limit >= 1
    /\ Len(Bucket) < Len(last.pre)

\* C4: record_failure appends exactly one timestamp, whatever the bucket's size, and
\* returns the size after the append: the non-expired entries before the call plus one.
C4_RecordFailureAppendsOne ==
    (last.op = "record_failure") =>
        /\ Bucket = Append(NonExpired(last.pre, last.window, last.at), last.at)
        /\ last.ret = Len(Bucket)
        /\ last.ret = Len(NonExpired(last.pre, last.window, last.at)) + 1

\* record_failure on a bucket holding an expired and a non-expired entry.
C4_Witness ==
    /\ last.op = "record_failure"
    /\ Len(last.pre) = 2
    /\ last.ret = 2

\* C5: remaining returns max(0, n - c), c the number of non-expired timestamps, never
\* a negative number; an allowed check_rate_limit that ages nothing out lowers it by one.
C5_RemainingIsClampedDifference ==
    /\ (last.op = "remaining") =>
           /\ last.ret = Max(0, last.limit - Len(NonExpired(last.pre, last.window, last.at)))
           /\ last.ret >= 0
    /\ (/\ last.op = "check"
        /\ last.ret = TRUE
        /\ NonExpired(last.pre, last.window, last.at) = last.pre) =>
           remaining(Bucket, last.limit, last.window, now).ret
               = remaining(last.pre, last.limit, last.window, now).ret - 1

\* remaining on a bucket with an expired entry and more live entries than the limit.
C5_Witness ==
    /\ last.op = "remaining"
    /\ last.ret = 0
    /\ Len(NonExpired(last.pre, last.window, last.at)) > last.limit
    /\ Len(NonExpired(last.pre, last.window, last.at)) < Len(last.pre)

\* C6 as stated: with remaining() calls inserted anywhere, every later
\* check_rate_limit / record_failure call returns what it returns without them and
\* leaves the same non-expired content.
C6_RemainingNeverChangesLaterCalls ==
    (last.op \in {"check", "record_failure"}) =>
        /\ last.ret = last.sret
        /\ NonExpired(Bucket, last.window, last.at)
               = NonExpired(shadow[last.key], last.window, last.at)

\* C6 as amended: remaining appends nothing and removes only entries expired for its
\* own window; later calls that use no longer a window than the remaining() calls
\* before them return the same and leave the same non-expired content.
C6_RemainingReadOnlyWithinWindow ==
    /\ (last.op = "remaining") => (Bucket = NonExpired(last.pre, last.window, last.at))
    /\ (last.op \in {"check", "record_failure"} /\ fit[last.key]) =>
           /\ last.ret = last.sret
           /\ NonExpired(Bucket, last.window, last.at)
                  = NonExpired(shadow[last.key], last.window, last.at)

\* A check denied after a remaining() call that pruned: the bucket it found was
\* shorter than the untouched one.
C6_Witness ==
    /\ last.op = "check"
    /\ fit[last.key]
    /\ remW[last.key] # NoWindow
    /\ last.ret = FALSE
    /\ last.limit >= 1
    /\ Len(last.pre) < Len(last.spre)

\* C7: check_rate_limit answers with a boolean for every limit, 0 and limits below
\* the bucket's size included, and after a denial remaining() at the same time is 0.
C7_ExhaustionIsAValue ==
    (last.op = "check") =>
        /\ last.ret \in BOOLEAN
        /\ (last.ret = FALSE) => (remaining(Bucket, last.limit, last.window, now).ret = 0)

\* A denial with a limit lower than the number of live entries.
C7_Witness ==
    /\ last.op = "check"
    /\ last.ret = FALSE
    /\ last.limit >= 1
    /\ last.limit < Len(Bucket)

\* C8: right after a call on key k at time now with window w, every timestamp of the
\* bucket lies in [now - w, now], and the entries of the bucket before the call that
\* are not older than now - w (exactly w old included) are all still there.
C8_WindowInvariant ==
    (last.op # "none") =>
        /\ \A i \in 1..Len(Bucket) :
               last.at - last.window <= Bucket[i] /\ Bucket[i] <= last.at
        /\ Len(NonExpired(last.pre, last.window, last.at)) <= Len(Bucket)
        /\ SubSeq(Bucket, 1, Len(NonExpired(last.pre, last.window, last.at)))
               = NonExpired(last.pre, last.window, last.at)

\* An older entry was removed and an entry exactly w old was kept.
C8_Witness ==
    /\ last.op # "none"
    /\ Len(last.pre) = 2
    /\ last.pre[1] < last.at - last.window
    /\ last.pre[2] = last.at - last.window
    /\ Bucket[1] = last.pre[2]

\* The admitted calls of key k made in the closed interval [t, t + w].
AdmittedIn(k, t, w) == {i \in 1..Len(admitted[k]) : t <= admitted[k][i] /\ admitted[k][i] <= t + w}

\* C25: with one limit n >= 1 and one window w, under serialized calls on a
\* non-decreasing clock, every closed interval of length w holds at most n calls of
\* check_rate_limit that returned True.
C25_SlidingWindowCap ==
    \A k \in DOMAIN admitted : \A t \in 0..MaxTime :
        Cardinality(AdmittedIn(k, t, config.window)) <= config.limit

\* More calls than the limit were admitted over time, and the call just made, with an
\* entry exactly w old in the bucket, was denied.
C25_Witness ==
    /\ hist = "cap"
    /\ last.op = "check"
    /\ last.ret = FALSE
    /\ last.pre[1] = last.at - last.window
    /\ Len(admitted[last.key]) > config.limit

C27_KeysIndependent ==
    [][\A k \in DOMAIN buckets : (k # last'.key) => (buckets'[k] = buckets[k])]_vars

\* login:B is admitted with limit 1 while login:A holds two live entries.
C27_Witness ==
    /\ last.op = "check"
    /\ last.key = "login:B"
    /\ last.limit = 1
    /\ last.ret = TRUE
    /\ Len(_prune(buckets["login:A"], last.window, now)) = 2

\* ---------------------------------------------------------------- the validator's claims

\* The lowercased text after the last dot of name is one of exts.
HasExtensionIn(name, exts) ==
    \E i \in 1..Len(name) :
        /\ name[i] = Dot
        /\ \A j \in (i + 1)..Len(name) : name[j] # Dot
        /\ Lower(SubSeq(name, i + 1, Len(name))) \in exts

\* part occurs in bytes and ends at or before byte n.
OccursWithin(bytes, part, n) ==
    \E i \in 1..Len(bytes) :
        /\ i + Len(part) - 1 <= Min(n, Len(bytes))
        /\ \A j \in 1..Len(part) : bytes[i + j - 1] = part[j]

\* The signature rule of the extension of name holds of bytes.
CarriesSignature(name, bytes) ==
    \/ HasExtensionIn(name, {<<"p", "n", "g">>}) /\ OccursWithin(bytes, PNG_MAGIC, Len(PNG_MAGIC))
    \/ HasExtensionIn(name, {<<"j", "p", "g">>, <<"j", "p", "e", "g">>})
           /\ OccursWithin(bytes, JPEG_MAGIC, Len(JPEG_MAGIC))
    \/ HasExtensionIn(name, {<<"g", "i", "f">>}) /\ OccursWithin(bytes, GIF_MAGIC, Len(GIF_MAGIC))
    \/ HasExtensionIn(name, {<<"m", "p", "4">>}) /\ OccursWithin(bytes, FTYP, ScanLen)
    \/ HasExtensionIn(name, {<<"m", "o", "v">>})
           /\ (OccursWithin(bytes, FTYPQT, ScanLen) \/ OccursWithin(bytes, QT, ScanLen))

\* C11: a file whose extension is not in the configured allow-set is rejected by
\* validate_file_type whatever its bytes and whatever the sniffer, and the stream is
\* neither read nor sought: its position is the one before the call.
C11_DisallowedExtensionRejectedUntouched ==
    (validated.done /\ upload.name # NoneName /\ ~HasExtensionIn(upload.name, upload.allowed)) =>
        /\ validated.ret = FALSE
        /\ ~validated.touched
        /\ upload.stream.pos = validated.prePos

\* A genuine PNG named x.exe, sniffer installed, stream in the middle: rejected, and
\* the stream is still in the middle.
C11_Witness ==
    /\ validated.done
    /\ upload.name = <<"x", Dot, "e", "x", "e">>
    /\ StartsWith(upload.stream.data, PNG_MAGIC)
    /\ upload.stream.fail = "none"
    /\ upload.sniffer = "present"
    /\ validated.ret = FALSE
    /\ validated.prePos = 1
    /\ upload.stream.pos = 1

\* C12: a file named x.png whose bytes do not start with the PNG magic is rejected,
\* with the sniffer present as with the sniffer absent, whatever the bytes are.
C12_PngNameNeedsPngBytes ==
    ( /\ validated.done
      /\ upload.name = <<"x", Dot, "p", "n", "g">>
      /\ ~StartsWith(upload.stream.data, PNG_MAGIC)
      /\ upload.sniffer \in {"present", "absent"} )
    => (validated.ret = FALSE)

\* C13: without the sniffer, a readable file with an allowed extension is accepted
\* exactly when its header carries the signature of that extension (png, jpg/jpeg and
\* gif at the start, mp4 and mov within the first 256 bytes); an allowed extension
\* with no signature rule is rejected.
C13_FallbackMatchesClaimedExtension ==
    ( /\ validated.done
      /\ upload.sniffer = "absent"
      /\ upload.stream.fail = "none"
      /\ upload.name # NoneName
      /\ HasExtensionIn(upload.name, upload.allowed) )
    => (validated.ret = CarriesSignature(upload.name, upload.stream.data))

\* A minimal PNG header named x.png is accepted by the signature check.
C13_Witness ==
    /\ validated.done
    /\ upload.sniffer = "absent"
    /\ upload.name = <<"x", Dot, "p", "n", "g">>
    /\ upload.stream.data = PNG_MAGIC \o <<0, 0>>
    /\ validated.outcome = "signature"
    /\ validated.ret = TRUE

\* C14: validate_file_type never lets an exception out: it returns a boolean for every
\* input, and FALSE when the stream's seek or read fails or the name is no string.
C14_NeverRaises ==
    validated.done =>
        /\ ~validated.raised
        /\ validated.ret \in BOOLEAN
        /\ (validated.touched /\ upload.stream.fail # "none") => (validated.ret = FALSE)
        /\ (upload.name = NoneName) => (validated.ret = FALSE)

\* A genuine PNG named x.png on a stream whose read raises: FALSE is returned.
C14_Witness ==
    /\ validated.done
    /\ upload.name = <<"x", Dot, "p", "n", "g">>
    /\ StartsWith(upload.stream.data, PNG_MAGIC)
    /\ upload.stream.fail = "read"
    /\ validated.touched
    /\ validated.outcome = "error"
    /\ validated.ret = FALSE

\* C15: when the sniffer raises while it classifies the header, validate_file_type
\* returns FALSE, whatever the header bytes are.
C15_SnifferFailureRejects ==
    ( /\ validated.done
      /\ upload.sniffer = "raises"
      /\ validated.touched
      /\ upload.stream.fail = "none" )
    => (validated.ret = FALSE)

\* ---------------------------------------------------------------- the file service's claims

\* The text after the last dot of name, <<>> when name has no dot.
AfterLastDot(name) ==
    IF \E i \in 1..Len(name) : name[i] = Dot
    THEN SubSeq(name, LastDot(name) + 1, Len(name))
    ELSE <<>>

PathSeparators == {"/", "\\"}

\* C16: allowed_file(filename) is TRUE exactly when filename has a dot and the text
\* after its last dot, lowercased, is in the configured ALLOWED_EXTENSIONS.
C16_AllowedFileIffLastExtensionAllowed ==
    (service.op = "allowed_file") =>
        /\ service.ret \in BOOLEAN
        /\ service.ret = HasExtensionIn(upload.name, upload.allowed)

\* A mixed-case extension is accepted.
C16_Witness ==
    /\ service.op = "allowed_file"
    /\ upload.name = <<"x", Dot, "P", "n", "g">>
    /\ service.ret = TRUE

\* C17: secure_filename_with_id returns the id followed only by the sanitized
\* extension: the result has no path separator, it is the id alone or the id, a dot
\* and characters of [A-Za-z0-9_-], and for a name of the form base.ext it is
\* id.ext whatever base is.
C17_StorageNameIsIdPlusExtension ==
    (service.op = "secure_filename_with_id") =>
        LET ret == service.ret
            rest == SubSeq(ret, Len(upload.id) + 1, Len(ret))
            ext == AfterLastDot(upload.name)
        IN  /\ \A i \in 1..Len(ret) : ret[i] \notin PathSeparators
            /\ StartsWith(ret, upload.id)
            /\ \/ rest = <<>>
               \/ /\ Len(rest) >= 2
                  /\ rest[1] = Dot
                  /\ \A i \in 2..Len(rest) : rest[i] \in SafeChars \ {Dot}
            /\ ( /\ ext # <<>>
                 /\ \A i \in 1..Len(ext) : ext[i] \in SafeChars \ {Dot, "_"}
                 /\ \E i \in 1..(LastDot(upload.name) - 1) :
                        upload.name[i] \in SafeChars \ {Dot, "_"} )
               => (ret = upload.id \o <<Dot>> \o ext)

\* The traversal name ../../etc/passwd.png with id abc123 becomes abc123.png.
C17_Witness ==
    /\ service.op = "secure_filename_with_id"
    /\ upload.id = <<"a", "b", "c", "1", "2", "3">>
    /\ Len(upload.name) = 20
    /\ upload.name[3] = "/"
    /\ service.ret = <<"a", "b", "c", "1", "2", "3", Dot, "p", "n", "g">>

\* C18: every upload that save_uploaded_file accepts is stored as the file id, a dot
\* and the original extension, the one allowed_file accepted.
C18_StoredWithOriginalExtension ==
    (service.op = "save_uploaded_file" /\ service.exc = "none") =>
        /\ service.ret = upload.id \o <<Dot>> \o AfterLastDot(upload.name)
        /\ service.ret \in folder

\* C19: when save_uploaded_file rejects an upload (no file name, extension not
\* allowed, content refused by validate_file_type) it raises ValueError and the
\* upload folder holds the same files after the call as before it.
C19_RejectionWritesNothing ==
    (service.op = "save_uploaded_file") =>
        /\ ( \/ upload.name \in {NoneName, <<>>}
             \/ ~HasExtensionIn(upload.name, upload.allowed)
             \/ ~validate_file_type(upload.stream, upload.name, upload.sniffer).ret )
           => (service.exc = "ValueError")
        /\ (service.exc # "none") => (folder = service.before)

\* Text named x.png is refused while the folder holds a file: the file is still the
\* only one.
C19_Witness ==
    /\ service.op = "save_uploaded_file"
    /\ upload.name = <<"x", Dot, "p", "n", "g">>
    /\ upload.stream.data = <<84, 101, 120, 116>>
    /\ service.exc = "ValueError"
    /\ service.before # {}
    /\ folder = service.before

\* C20: validate_file_size returns TRUE exactly when the stream is at most
\* MAX_CONTENT_LENGTH (10 MiB) long, and it leaves a stream that was at position 0 at
\* position 0.
C20_SizeLimitInclusive ==
    (service.op = "validate_file_size" /\ service.exc = "none") =>
        /\ service.ret = (upload.stream.size <= 10 * 1024 * 1024)
        /\ (service.prePos = 0) => (upload.stream.pos = 0)

\* A stream of exactly 10 MiB at position 0 is accepted and is still at position 0.
C20_Witness ==
    /\ service.op = "validate_file_size"
    /\ upload.stream.size = 10 * 1024 * 1024
    /\ service.prePos = 0
    /\ service.ret = TRUE
    /\ upload.stream.pos = 0

\* ---------------------------------------------------------------- the quest service's claims

\* A title that is missing, or holds nothing but blanks and angle brackets.
EmptyTitle(title) ==
    \/ title = NoneName
    \/ \A i \in 1..Len(title) : title[i] \in {" ", "<", ">"}

\* C23: create_quest with a title that is missing or empty after sanitisation raises
\* ValueError, and no Quest row and no Task row is added.
C23_NoTitleNoQuest ==
    (service.op = "create_quest" /\ EmptyTitle(service.arg.title)) =>
        /\ service.exc = "ValueError"
        /\ db = service.before

\* The title '<>' sent with a task list, to a database that already holds a quest.
C23_Witness ==
    /\ service.op = "create_quest"
    /\ service.arg.title = <<"<", ">">>
    /\ service.arg.tasks # <<>>
    /\ service.exc = "ValueError"
    /\ db.quests # <<>>

\* The tags a client asks for: the entries of the list, or the pieces of the
\* comma-separated string, without surrounding blanks; empty entries are no tags.
Requested(filters) ==
    IF filters.kind = "none" THEN {}
    ELSE LET items == IF filters.kind = "str" THEN Split(filters.tags) ELSE filters.tags
         IN  {Trim(items[i]) : i \in 1..Len(items)} \ {<<>>}

\* The tags of a quest, as written in its row.
TagsOf(q) ==
    IF q.tags.kind = "json" THEN Elements(q.tags.items)
    ELSE LET items == Split(q.tags.text)
         IN  {Trim(items[i]) : i \in 1..Len(items)} \ {<<>>}

Published(rows) == {q \in Elements(rows.quests) : q.published}

Matching(rows, wanted) ==
    {q \in Published(rows) : \E tag \in TagsOf(q), w \in wanted : Lower(tag) = Lower(w)}

\* C24 as stated: only published quests are returned; with a tag filter exactly the
\* published quests with a tag equal, ignoring case, to a requested tag, and without
\* a filter every published quest.
C24_Original ==
    (service.op = "get_published_quests") =>
        /\ \A q \in Elements(service.ret) : q.published
        /\ IF service.arg.kind # "none" /\ service.arg.tags # <<>>
           THEN Elements(service.ret) = Matching(db, Requested(service.arg))
           ELSE Elements(service.ret) = Published(db)

\* C24: only published quests are returned; when the filter names at least one tag
\* that is not blank, exactly the published quests with a tag equal, ignoring case,
\* to a requested tag; when there is no filter or it names no tag, every published
\* quest.
C24_PublishedMatchingTags ==
    (service.op = "get_published_quests") =>
        /\ \A q \in Elements(service.ret) : q.published
        /\ IF Requested(service.arg) # {}
           THEN Elements(service.ret) = Matching(db, Requested(service.arg))
           ELSE Elements(service.ret) = Published(db)

\* The filter 'P ,b' on a database with an unpublished quest tagged P and b and a
\* published quest tagged p: the published one alone is returned.
C24_Witness ==
    /\ service.op = "get_published_quests"
    /\ service.arg = [kind |-> "str", tags |-> <<"P", " ", ",", "b">>]
    /\ \E q \in Elements(db.quests) :
           ~q.published /\ q.tags = [kind |-> "json", items |-> <<<<"P">>, <<"b">>>>]
    /\ Len(service.ret) = 1
    /\ service.ret[1].tags = [kind |-> "json", items |-> <<<<"p">>>>]

\* ---------------------------------------------------------------- the routes' claims

\* The earlier admitted calls that are at most w old at time t.
StillCounted(times, w, t) == {i \in 1..Len(times) : times[i] >= t - w}

\* C28: a login POST is admitted exactly when fewer than `limit` earlier login POSTs
\* of the address were admitted within the window, whatever the failure counter
\* auth_fail:<ip>:<username> holds.
C28_LoginGateIgnoresFailureCounter ==
    (request.handler = "login" /\ request.method = "POST") =>
        ( (request.status # 429)
          <=> (Cardinality(StillCounted(request.earlier, config.window, request.at))
                   < config.limit) )

\* A login POST is admitted while the failure counter holds more entries than the
\* login limit.
C28_Witness ==
    /\ request.handler = "login"
    /\ request.method = "POST"
    /\ request.status # 429
    /\ Len(buckets[AuthFailKey]) > config.limit

\* login and register: a request answered with 429 has done nothing but consult the
\* limiter.
AuthLimiterFirst ==
    (request.handler \in {"login", "register"} /\ request.status = 429) =>
        (request.work = <<>>)

\* C21: in login, register and submit_task a request that is answered with 429 has
\* done no work but consulting the limiter: no database lookup, no credential check,
\* no user creation, no file validation, no file write, no submission insert.
C21_LimiterBeforeAnyWork ==
    (request.handler \in {"login", "register", "submit_task"} /\ request.status = 429) =>
        (request.work = <<>>)

\* The first position of step x in the work of the request, 0 when it was not done.
Step(x) ==
    IF \E i \in 1..Len(request.work) : request.work[i] = x
    THEN CHOOSE i \in 1..Len(request.work) :
             request.work[i] = x /\ \A j \in 1..(i - 1) : request.work[j] # x
    ELSE 0

\* C22: submit_task inserts a Submission row only if, earlier in the same request, the
\* uploaded file passed validate_file_size, allowed_file and validate_file_type and
\* was saved.
C22_SubmissionOnlyAfterAcceptance ==
    ( /\ request.handler = "submit_task"
      /\ (db.submissions # request.rows \/ Step("insert_submission") > 0) )
    => /\ request.attach
       /\ upload.name \notin {NoneName, <<>>}
       /\ upload.stream.size <= MAX_CONTENT_LENGTH
       /\ HasExtensionIn(upload.name, upload.allowed)
       /\ CarriesSignature(upload.name, upload.stream.data)
       /\ 0 < Step("validate_file_size")
       /\ Step("validate_file_size") < Step("allowed_file")
       /\ Step("allowed_file") < Step("validate_file_type")
       /\ Step("validate_file_type") < Step("file_save")
       /\ Step("file_save") < Step("insert_submission")
       /\ \A row \in db.submissions \ request.rows : row.media_filename \in folder

\* A PNG named x.png sent with a reflection: a Submission row is created.
C22_Witness ==
    /\ request.handler = "submit_task"
    /\ request.outcome = "created"
    /\ upload.name = <<"x", Dot, "p", "n", "g">>
    /\ db.submissions # request.rows

\* C29: a GET of the submit form, and a request for an unknown quest or an unknown
\* task, leave the bucket of 'upload:<client address>' as it was.
C29_OnlyUploadsConsumeBudget ==
    ( /\ request.handler = "submit_task"
      /\ (request.method = "GET" \/ ~request.quest \/ ~request.task) )
    => (buckets[UploadKey] = request.bucket)

\* C30: every file that submit_task writes is referenced by a Submission row created
\* in the same request; a request that creates no Submission leaves no file behind.
C30_NoOrphanUploads ==
    (request.handler = "submit_task") =>
        \A f \in folder \ request.files :
            \E row \in db.submissions \ request.rows : row.media_filename = f

====
